---- MODULE Spec2Model ----
(***************************************************************************)
(* The job-dispatch pools of typ (src/typ/pool.py): make_pool, the         *)
(* multi-process ProcessPool with its worker function _loop, and the       *)
(* in-process AsyncPool.                                                   *)
(*                                                                         *)
(* The two multiprocessing queues are FIFO sequences.  A worker is split   *)
(* at the points where it communicates (setup, requests.get, callback and  *)
(* responses.put, teardown), so that workers interleave with each other    *)
(* and with the dispatcher.  The blocking loops of ProcessPool.join are    *)
(* split at each blocking call.                                            *)
(*                                                                         *)
(* The fields from, finalFrom, closes, errors, dones, setups, teardowns    *)
(* and the variables errLog, closesPut are history kept for stating        *)
(* properties; the code does not read them.                                *)
(***************************************************************************)
EXTENDS Integers, Sequences, FiniteSets, TLC

\* ------------------------------------------------------------------ bounds
\* largest parallelism
MaxWorkers == 2
\* largest number of calls of post_fn by one AsyncPool
MaxPosts == 2
\* largest product of the parallelism and the length of the work list
MaxLoad == 8

\* None, for a context that was never assigned (contexts are naturals)
NoneVal == -1

\* the caller's work lists; <<1, 2, 3, 4>> is the list of the documented scenario
JobLists == { <<1, 2, 3, 4>>, <<3, 1, 2>> }

PreKinds == {"inc", "idx", "raise"}
CallbackKinds == {"add", "raise"}
PostKinds == {"id", "raise"}

\* The pool is made by make_pool, or (direct) by calling ProcessPool itself with
\* one worker, which is what the AsyncPool is compared with.
Configs ==
    { c \in [ jobs : 1..MaxWorkers, direct : BOOLEAN, context : {0}, pre : PreKinds,
              cb : CallbackKinds, post : PostKinds, prePicklable : BOOLEAN,
              postPicklable : BOOLEAN, todo : JobLists ] :
        /\ c.direct => (c.jobs = 1 /\ c.prePicklable /\ c.postPicklable)
        /\ c.jobs * Len(c.todo) <= MaxLoad }

VARIABLES
    cfg,               \* the arguments of make_pool and the caller's work list
    ctor,              \* progress of make_pool: "new", "checked", "ValueError", "built"
    requests,          \* ProcessPool.requests: dispatcher -> workers
    responses,         \* ProcessPool.responses: workers -> dispatcher
    requestsClosed,    \* requests.close() was called in the dispatcher
    responsesClosed,   \* responses.close() was called in the dispatcher
    workers,           \* ProcessPool.workers: the state of each _loop process
    closed,            \* ProcessPool.closed
    erred,             \* ProcessPool.erred
    jn,                \* position of the dispatcher inside ProcessPool.join
    pSent,             \* number of jobs of cfg.todo sent to the ProcessPool
    pRecv,             \* results returned by ProcessPool.get, in order
    ret,               \* outcome of the last ProcessPool operation
    errLog,            \* worker numbers of the Errors dequeued by the dispatcher
    closesPut,         \* number of Close messages ever put on requests
    apool,             \* the AsyncPool object
    aSent,             \* number of jobs of cfg.todo sent to the AsyncPool
    aRecv,             \* results returned by AsyncPool.get, in order
    aRet               \* outcome of the last AsyncPool operation

pvars == <<ctor, requests, responses, requestsClosed, responsesClosed, workers,
           closed, erred, jn, pSent, pRecv, ret, errLog, closesPut>>
avars == <<apool, aSent, aRecv, aRet>>
vars == <<cfg, pvars, avars>>

WorkerNums == 0..(cfg.jobs - 1)

\* len(self.workers)
NumWorkers == Cardinality(DOMAIN workers)

\* ---------------------------------------------------- caller's functions
PreExc == "pre_fn raised"
CallbackExc == "callback raised"
PostExc == "post_fn raised"

\* pre_fn(host, worker_num, context), for the kinds that return
PreFn(kind, worker_num, context) ==
    IF kind = "inc" THEN context + 1 ELSE context + worker_num

\* callback(context_after_pre, args), for the kind that returns
Callback(context_after_pre, args) == context_after_pre + args

\* post_fn(context_after_pre), for the kind that returns
PostFn(context_after_pre) == context_after_pre

\* ---------------------------------------------------------------- messages
Request(args) == [type |-> "Request", args |-> args]
CloseMsg == [type |-> "Close", args |-> NoneVal]
Response(w, resp) == [type |-> "Response", resp |-> resp, from |-> w]
Done(w, final) == [type |-> "Done", resp |-> final, from |-> w]
Error(w, ex_str) == [type |-> "Error", resp |-> <<w, ex_str>>, from |-> w]

RECURSIVE Closes(_)
Closes(n) == IF n = 0 THEN <<>> ELSE <<CloseMsg>> \o Closes(n - 1)

NoRet == [op |-> "none", kind |-> "none"]
Returned(op, val) == [op |-> op, kind |-> "return", val |-> val]
Raised(op, exc) == [op |-> op, kind |-> "raise", exc |-> exc]

\* an exception that carries no data
Exc(name) == [name |-> name, worker_num |-> NoneVal, ex_str |-> ""]

\* the exception of _handle_error: "error from worker %d: %s"
PoolError(msg) == [name |-> "Exception", worker_num |-> msg[1], ex_str |-> msg[2]]

NewWorker ==
    [pc |-> "unborn", erred |-> FALSE, context_after_pre |-> NoneVal,
     args |-> NoneVal, closes |-> 0, errors |-> 0, dones |-> 0,
     setups |-> 0, teardowns |-> 0]

IdleJoin == [pc |-> "idle", idx |-> 0, final_responses |-> <<>>, finalFrom |-> <<>>]

NoAsyncPool ==
    [built |-> FALSE, msgs |-> <<>>, closed |-> FALSE, context_after_pre |-> NoneVal,
     final_context |-> NoneVal, posts |-> 0]

Init ==
    /\ cfg \in Configs
    /\ ctor = "new"
    /\ requests = <<>>
    /\ responses = <<>>
    /\ requestsClosed = FALSE
    /\ responsesClosed = FALSE
    /\ workers = [w \in 0..(cfg.jobs - 1) |-> NewWorker]
    /\ closed = FALSE
    /\ erred = FALSE
    /\ jn = IdleJoin
    /\ pSent = 0
    /\ pRecv = <<>>
    /\ ret = NoRet
    /\ errLog = <<>>
    /\ closesPut = 0
    /\ apool = NoAsyncPool
    /\ aSent = 0
    /\ aRecv = <<>>
    /\ aRet = NoRet

\* ---------------------------------------------------------------- make_pool
\* PickleCheck that tries pre_fn only
PickleCheckPreOnly(prePicklable, postPicklable) ==
    IF ~prePicklable THEN "ValueError" ELSE "checked"

\* pickle.dumps(pre_fn), pickle.dumps(post_fn): both are tried before any
\* pool class is instantiated
PickleCheck(prePicklable, postPicklable) ==
    IF ~prePicklable THEN "ValueError"
    ELSE IF ~postPicklable THEN "ValueError"
    ELSE "checked"

MakePoolCheck ==
    /\ ctor = "new"
    /\ ~cfg.direct
    /\ ctor' = PickleCheck(cfg.prePicklable, cfg.postPicklable)
    /\ ret' = IF ctor' = "ValueError"
              THEN Raised("make_pool", Exc("ValueError")) ELSE ret
    /\ UNCHANGED <<cfg, requests, responses, requestsClosed, responsesClosed,
                   workers, closed, erred, jn, pSent, pRecv, errLog, closesPut,
                   avars>>

\* cls = ProcessPool if jobs > 1 else AsyncPool
PoolClass(jobs) == IF jobs > 1 THEN "ProcessPool" ELSE "AsyncPool"

\* the pool of this run is a ProcessPool: chosen by make_pool, or
\* constructed directly
IsProcessPool == cfg.direct \/ PoolClass(cfg.jobs) = "ProcessPool"


\* __init__ starting one process more than jobs
ProcessPoolInitExtra ==
    /\ \/ ctor = "checked" /\ PoolClass(cfg.jobs) = "ProcessPool"
       \/ ctor = "new" /\ cfg.direct
    /\ ctor' = "built"
    /\ workers' = [w \in 0..cfg.jobs |-> [NewWorker EXCEPT !.pc = "pre"]]
    /\ UNCHANGED <<cfg, requests, responses, requestsClosed, responsesClosed,
                   closed, erred, jn, pSent, pRecv, ret, errLog, closesPut,
                   avars>>

\* ProcessPool.__init__: one started process per worker_num in range(jobs)
ProcessPoolInit ==
    /\ \/ ctor = "checked" /\ PoolClass(cfg.jobs) = "ProcessPool"
       \/ ctor = "new" /\ cfg.direct
    /\ ctor' = "built"
    /\ workers' = [w \in WorkerNums |-> [NewWorker EXCEPT !.pc = "pre"]]
    /\ UNCHANGED <<cfg, requests, responses, requestsClosed, responsesClosed,
                   closed, erred, jn, pSent, pRecv, ret, errLog, closesPut,
                   avars>>

\* ------------------------------------------------------------------- _loop
\* WorkerPre that drops the result of pre_fn and keeps the initial context
WorkerPreKeepsContext(w) ==
    /\ workers[w].pc = "pre"
    /\ IF cfg.pre = "raise"
       THEN /\ workers' = [workers EXCEPT ![w].erred = TRUE, ![w].pc = "post",
                                          ![w].setups = workers[w].setups + 1,
                                          ![w].errors = workers[w].errors + 1]
            /\ responses' = Append(responses, Error(w, PreExc))
       ELSE /\ workers' = [workers EXCEPT
                  ![w].context_after_pre = cfg.context,
                  ![w].setups = workers[w].setups + 1,
                  ![w].pc = "get"]
            /\ UNCHANGED responses
    /\ UNCHANGED <<cfg, ctor, requests, requestsClosed, responsesClosed, closed,
                   erred, jn, pSent, pRecv, ret, errLog, closesPut, avars>>

\* context_after_pre = pre_fn(host, worker_num, context)
WorkerPre(w) ==
    /\ workers[w].pc = "pre"
    /\ IF cfg.pre = "raise"
       THEN /\ workers' = [workers EXCEPT ![w].erred = TRUE, ![w].pc = "post",
                                          ![w].setups = workers[w].setups + 1,
                                          ![w].errors = workers[w].errors + 1]
            /\ responses' = Append(responses, Error(w, PreExc))
       ELSE /\ workers' = [workers EXCEPT
                  ![w].context_after_pre = PreFn(cfg.pre, w, cfg.context),
                  ![w].setups = workers[w].setups + 1,
                  ![w].pc = "get"]
            /\ UNCHANGED responses
    /\ UNCHANGED <<cfg, ctor, requests, requestsClosed, responsesClosed, closed,
                   erred, jn, pSent, pRecv, ret, errLog, closesPut, avars>>


\* _loop reading the head of requests without removing a Request from it
WorkerGetPeeks(w) ==
    /\ workers[w].pc = "get"
    /\ requests /= <<>>
    /\ IF Head(requests).type = "Close"
       THEN /\ requests' = Tail(requests)
            /\ workers' = [workers EXCEPT ![w].pc = "post",
                                          ![w].closes = workers[w].closes + 1]
       ELSE /\ requests' = requests
            /\ workers' = [workers EXCEPT ![w].pc = "call",
                                          ![w].args = Head(requests).args]
    /\ UNCHANGED <<cfg, ctor, responses, requestsClosed, responsesClosed, closed,
                   erred, jn, pSent, pRecv, ret, errLog, closesPut, avars>>


\* _loop taking the newest message of the requests queue instead of the
\* oldest
WorkerGetLast(w) ==
    /\ workers[w].pc = "get"
    /\ requests /= <<>>
    /\ requests' = SubSeq(requests, 1, Len(requests) - 1)
    /\ workers' = IF requests[Len(requests)].type = "Close"
                  THEN [workers EXCEPT ![w].pc = "post",
                                       ![w].closes = workers[w].closes + 1]
                  ELSE [workers EXCEPT ![w].pc = "call",
                                       ![w].args = requests[Len(requests)].args]
    /\ UNCHANGED <<cfg, ctor, responses, requestsClosed, responsesClosed, closed,
                   erred, jn, pSent, pRecv, ret, errLog, closesPut, avars>>

\* message_type, args = requests.get(block=True)
WorkerGet(w) ==
    /\ workers[w].pc = "get"
    /\ requests /= <<>>
    /\ requests' = Tail(requests)
    /\ workers' = IF Head(requests).type = "Close"
                  THEN [workers EXCEPT ![w].pc = "post",
                                       ![w].closes = workers[w].closes + 1]
                  ELSE [workers EXCEPT ![w].pc = "call",
                                       ![w].args = Head(requests).args]
    /\ UNCHANGED <<cfg, ctor, responses, requestsClosed, responsesClosed, closed,
                   erred, jn, pSent, pRecv, ret, errLog, closesPut, avars>>

\* WorkerCall that goes back to requests.get after it has put the Error
WorkerCallResumes(w) ==
    /\ workers[w].pc = "call"
    /\ IF cfg.cb = "raise"
       THEN /\ workers' = [workers EXCEPT ![w].erred = TRUE, ![w].pc = "get",
                                          ![w].args = NoneVal,
                                          ![w].errors = workers[w].errors + 1]
            /\ responses' = Append(responses, Error(w, CallbackExc))
       ELSE /\ workers' = [workers EXCEPT ![w].pc = "get", ![w].args = NoneVal]
            /\ responses' = Append(responses,
                   Response(w, Callback(workers[w].context_after_pre, workers[w].args)))
    /\ UNCHANGED <<cfg, ctor, requests, requestsClosed, responsesClosed, closed,
                   erred, jn, pSent, pRecv, ret, errLog, closesPut, avars>>

\* WorkerCall with the callback given the initial context, not the derived one
WorkerCallInitialContext(w) ==
    /\ workers[w].pc = "call"
    /\ IF cfg.cb = "raise"
       THEN /\ workers' = [workers EXCEPT ![w].erred = TRUE, ![w].pc = "post",
                                          ![w].args = NoneVal,
                                          ![w].errors = workers[w].errors + 1]
            /\ responses' = Append(responses, Error(w, CallbackExc))
       ELSE /\ workers' = [workers EXCEPT ![w].pc = "get", ![w].args = NoneVal]
            /\ responses' = Append(responses,
                   Response(w, Callback(cfg.context, workers[w].args)))
    /\ UNCHANGED <<cfg, ctor, requests, requestsClosed, responsesClosed, closed,
                   erred, jn, pSent, pRecv, ret, errLog, closesPut, avars>>


\* _loop keeping the callback's result as the context of the next call
WorkerCallThreadsContext(w) ==
    /\ workers[w].pc = "call"
    /\ IF cfg.cb = "raise"
       THEN /\ workers' = [workers EXCEPT ![w].erred = TRUE, ![w].pc = "post",
                                          ![w].args = NoneVal,
                                          ![w].errors = workers[w].errors + 1]
            /\ responses' = Append(responses, Error(w, CallbackExc))
       ELSE /\ workers' = [workers EXCEPT
                  ![w].pc = "get", ![w].args = NoneVal,
                  ![w].context_after_pre =
                      Callback(workers[w].context_after_pre, workers[w].args)]
            /\ responses' = Append(responses,
                   Response(w, Callback(workers[w].context_after_pre, workers[w].args)))
    /\ UNCHANGED <<cfg, ctor, requests, requestsClosed, responsesClosed, closed,
                   erred, jn, pSent, pRecv, ret, errLog, closesPut, avars>>

\* resp = callback(context_after_pre, args); responses.put((Response, resp)).
\* The local args is not read again before requests.get overwrites it: it is
\* kept only while the Request is being processed.
WorkerCall(w) ==
    /\ workers[w].pc = "call"
    /\ IF cfg.cb = "raise"
       THEN /\ workers' = [workers EXCEPT ![w].erred = TRUE, ![w].pc = "post",
                                          ![w].args = NoneVal,
                                          ![w].errors = workers[w].errors + 1]
            /\ responses' = Append(responses, Error(w, CallbackExc))
       ELSE /\ workers' = [workers EXCEPT ![w].pc = "get", ![w].args = NoneVal]
            /\ responses' = Append(responses,
                   Response(w, Callback(workers[w].context_after_pre, workers[w].args)))
    /\ UNCHANGED <<cfg, ctor, requests, requestsClosed, responsesClosed, closed,
                   erred, jn, pSent, pRecv, ret, errLog, closesPut, avars>>


\* _loop with the Done put outside the "if not erred" test
WorkerPostIgnoresErred(w) ==
    /\ workers[w].pc = "post"
    /\ IF cfg.post = "raise"
       THEN /\ workers' = [workers EXCEPT ![w].pc = "exited",
                                          ![w].teardowns = workers[w].teardowns + 1]
            /\ UNCHANGED responses
       ELSE /\ responses' = Append(responses,
                                   Done(w, PostFn(workers[w].context_after_pre)))
            /\ workers' = [workers EXCEPT ![w].pc = "exited",
                                          ![w].teardowns = workers[w].teardowns + 1,
                                          ![w].dones = workers[w].dones + 1]
    /\ UNCHANGED <<cfg, ctor, requests, requestsClosed, responsesClosed, closed,
                   erred, jn, pSent, pRecv, ret, errLog, closesPut, avars>>


\* _loop reporting a failure of post_fn as an Error instead of swallowing it
WorkerPostReportsError(w) ==
    /\ workers[w].pc = "post"
    /\ IF workers[w].erred
       THEN /\ workers' = [workers EXCEPT ![w].pc = "exited"]
            /\ UNCHANGED responses
       ELSE IF cfg.post = "raise"
       THEN /\ workers' = [workers EXCEPT ![w].pc = "exited",
                                          ![w].teardowns = workers[w].teardowns + 1,
                                          ![w].errors = workers[w].errors + 1]
            /\ responses' = Append(responses, Error(w, PostExc))
       ELSE /\ responses' = Append(responses,
                                   Done(w, PostFn(workers[w].context_after_pre)))
            /\ workers' = [workers EXCEPT ![w].pc = "exited",
                                          ![w].teardowns = workers[w].teardowns + 1,
                                          ![w].dones = workers[w].dones + 1]
    /\ UNCHANGED <<cfg, ctor, requests, requestsClosed, responsesClosed, closed,
                   erred, jn, pSent, pRecv, ret, errLog, closesPut, avars>>


\* _loop calling post_fn before the "if not erred" test
WorkerPostAlwaysTeardown(w) ==
    /\ workers[w].pc = "post"
    /\ IF workers[w].erred \/ cfg.post = "raise"
       THEN /\ workers' = [workers EXCEPT ![w].pc = "exited",
                                          ![w].teardowns = workers[w].teardowns + 1]
            /\ UNCHANGED responses
       ELSE /\ responses' = Append(responses,
                                   Done(w, PostFn(workers[w].context_after_pre)))
            /\ workers' = [workers EXCEPT ![w].pc = "exited",
                                          ![w].teardowns = workers[w].teardowns + 1,
                                          ![w].dones = workers[w].dones + 1]
    /\ UNCHANGED <<cfg, ctor, requests, requestsClosed, responsesClosed, closed,
                   erred, jn, pSent, pRecv, ret, errLog, closesPut, avars>>

\* if not erred: responses.put((Done, post_fn(context_after_pre)));
\* an exception of post_fn is swallowed
WorkerPost(w) ==
    /\ workers[w].pc = "post"
    /\ IF workers[w].erred
       THEN /\ workers' = [workers EXCEPT ![w].pc = "exited"]
            /\ UNCHANGED responses
       ELSE IF cfg.post = "raise"
       THEN /\ workers' = [workers EXCEPT ![w].pc = "exited",
                                          ![w].teardowns = workers[w].teardowns + 1]
            /\ UNCHANGED responses
       ELSE /\ responses' = Append(responses,
                                   Done(w, PostFn(workers[w].context_after_pre)))
            /\ workers' = [workers EXCEPT ![w].pc = "exited",
                                          ![w].teardowns = workers[w].teardowns + 1,
                                          ![w].dones = workers[w].dones + 1]
    /\ UNCHANGED <<cfg, ctor, requests, requestsClosed, responsesClosed, closed,
                   erred, jn, pSent, pRecv, ret, errLog, closesPut, avars>>

\* ------------------------------------------------------------- ProcessPool
\* the dispatcher is one thread: no operation starts while join is running
CallerReady == ctor = "built" /\ IsProcessPool /\ jn.pc = "idle"

\* send: self.requests.put((Request, msg)).  A put on a closed queue raises
\* and changes nothing, so send is a step only while requests is open.
PSend ==
    /\ CallerReady
    /\ pSent < Len(cfg.todo)
    /\ ~requestsClosed
    /\ requests' = Append(requests, Request(cfg.todo[pSent + 1]))
    /\ pSent' = pSent + 1
    /\ ret' = Returned("send", NoneVal)
    /\ UNCHANGED <<cfg, ctor, responses, requestsClosed, responsesClosed, workers,
                   closed, erred, jn, pRecv, errLog, closesPut, avars>>

\* HandleError that raises without setting self.erred
HandleErrorNoFlag(msg) == [erred |-> erred, exc |-> PoolError(msg)]

\* _handle_error: self.erred = True; raise Exception(worker_num, ex_str)
HandleError(msg) == [erred |-> TRUE, exc |-> PoolError(msg)]

\* get: msg_type, resp = self.responses.get(block, timeout).  It blocks while
\* responses is empty; on a closed queue it raises and changes nothing.
PGet ==
    /\ CallerReady
    /\ ~responsesClosed
    /\ responses /= <<>>
    /\ responses' = Tail(responses)
    /\ LET m == Head(responses) IN
       CASE m.type = "Error" ->
              /\ erred' = HandleError(m.resp).erred
              /\ ret' = Raised("get", HandleError(m.resp).exc)
              /\ errLog' = Append(errLog, m.resp[1])
              /\ UNCHANGED pRecv
         [] m.type = "Response" ->
              /\ pRecv' = Append(pRecv, m.resp)
              /\ ret' = Returned("get", m.resp)
              /\ UNCHANGED <<erred, errLog>>
         [] OTHER ->
              /\ ret' = Raised("get", Exc("AssertionError"))
              /\ UNCHANGED <<erred, pRecv, errLog>>
    /\ UNCHANGED <<cfg, ctor, requests, requestsClosed, responsesClosed, workers,
                   closed, jn, pSent, closesPut, avars>>

\* PClose that puts a single Close, whatever the number of workers
PCloseSingle ==
    /\ CallerReady
    /\ ~requestsClosed
    /\ requests' = requests \o Closes(1)
    /\ closesPut' = closesPut + 1
    /\ requestsClosed' = TRUE
    /\ closed' = TRUE
    /\ UNCHANGED <<cfg, ctor, responses, responsesClosed, workers, erred, jn,
                   pSent, pRecv, ret, errLog, avars>>


\* close putting its Close messages in front of the queued Requests
PCloseFront ==
    /\ CallerReady
    /\ ~requestsClosed
    /\ requests' = Closes(NumWorkers) \o requests
    /\ closesPut' = closesPut + NumWorkers
    /\ requestsClosed' = TRUE
    /\ closed' = TRUE
    /\ UNCHANGED <<cfg, ctor, responses, responsesClosed, workers, erred, jn,
                   pSent, pRecv, ret, errLog, avars>>

\* close: one (Close, None) per worker; self.requests.close();
\* self.closed = True.  When requests was closed before, the first put raises
\* and close changes nothing.
PClose ==
    /\ CallerReady
    /\ ~requestsClosed
    /\ requests' = requests \o Closes(NumWorkers)
    /\ closesPut' = closesPut + NumWorkers
    /\ requestsClosed' = TRUE
    /\ closed' = TRUE
    /\ UNCHANGED <<cfg, ctor, responses, responsesClosed, workers, erred, jn,
                   pSent, pRecv, ret, errLog, avars>>

\* join, up to its first blocking call: final_responses = []; if not
\* self.closed: self.requests.close() and the terminate loop, else the
\* collect loop (whose first get raises, nothing changed, when responses was
\* closed by an earlier join)
PJoin ==
    /\ CallerReady
    /\ ~(closed /\ responsesClosed)
    /\ jn' = [IdleJoin EXCEPT !.pc = IF ~closed THEN "terminate" ELSE "recv"]
    /\ requestsClosed' = IF ~closed THEN TRUE ELSE requestsClosed
    /\ UNCHANGED <<cfg, ctor, requests, responses, responsesClosed, workers,
                   closed, erred, pSent, pRecv, ret, errLog, closesPut, avars>>

\* JoinReturn that leaves the loop over the workers after its first iteration
JoinReturnFirst(j, final) ==
    [jn |-> IdleJoin, responsesClosed |-> TRUE,
     ret |-> [op |-> "join", kind |-> "return", val |-> final, from |-> j.finalFrom]]

\* the end of an iteration of join's loop over the workers and, after the
\* last one: self.responses.close(); return final_responses
JoinReturn(j, final) ==
    IF j.idx + 1 = cfg.jobs
    THEN [jn |-> IdleJoin, responsesClosed |-> TRUE,
          ret |-> [op |-> "join", kind |-> "return", val |-> final,
                   from |-> j.finalFrom]]
    ELSE [jn |-> [j EXCEPT !.idx = j.idx + 1], responsesClosed |-> responsesClosed,
          ret |-> ret]

\* JoinTerminate that joins the worker without terminating it first (it
\* returns once the worker has exited by itself)
JoinTerminateNoKill ==
    /\ jn.pc = "terminate"
    /\ workers[jn.idx].pc \in {"exited", "get"}
    /\ LET r == JoinReturn(jn, jn.final_responses) IN
         /\ jn' = r.jn
         /\ responsesClosed' = r.responsesClosed
         /\ ret' = r.ret
    /\ UNCHANGED <<cfg, ctor, requests, responses, requestsClosed, closed, erred,
                   workers, pSent, pRecv, errLog, closesPut, avars>>

\* join, not closed: w.terminate(); w.join() for the next worker
JoinTerminate ==
    /\ jn.pc = "terminate"
    /\ workers' = [workers EXCEPT
                      ![jn.idx].pc = IF workers[jn.idx].pc = "exited"
                                     THEN "exited" ELSE "terminated",
                      ![jn.idx].args = NoneVal]
    /\ LET r == JoinReturn(jn, jn.final_responses) IN
         /\ jn' = r.jn
         /\ responsesClosed' = r.responsesClosed
         /\ ret' = r.ret
    /\ UNCHANGED <<cfg, ctor, requests, responses, requestsClosed, closed, erred,
                   pSent, pRecv, errLog, closesPut, avars>>


\* join dropping an Error like any other message that is not Done
JoinRecvSkipsError ==
    /\ jn.pc = "recv"
    /\ responses /= <<>>
    /\ responses' = Tail(responses)
    /\ LET m == Head(responses) IN
       CASE m.type = "Done" ->
              /\ jn' = [jn EXCEPT
                    !.pc = "wait",
                    !.final_responses = Append(jn.final_responses, m.resp),
                    !.finalFrom = Append(jn.finalFrom, m.from)]
              /\ UNCHANGED <<erred, ret, errLog>>
         [] OTHER ->
              UNCHANGED <<jn, erred, ret, errLog>>
    /\ UNCHANGED <<cfg, ctor, requests, requestsClosed, responsesClosed, workers,
                   closed, pSent, pRecv, closesPut, avars>>

\* join, closed: msg_type, resp = self.responses.get(True) inside while True
JoinRecv ==
    /\ jn.pc = "recv"
    /\ responses /= <<>>
    /\ responses' = Tail(responses)
    /\ LET m == Head(responses) IN
       CASE m.type = "Error" ->
              /\ erred' = HandleError(m.resp).erred
              /\ ret' = Raised("join", HandleError(m.resp).exc)
              /\ errLog' = Append(errLog, m.resp[1])
              /\ jn' = IdleJoin
         [] m.type = "Done" ->
              /\ jn' = [jn EXCEPT
                    !.pc = "wait",
                    !.final_responses = Append(jn.final_responses, m.resp),
                    !.finalFrom = Append(jn.finalFrom, m.from)]
              /\ UNCHANGED <<erred, ret, errLog>>
         [] OTHER ->
              UNCHANGED <<jn, erred, ret, errLog>>
    /\ UNCHANGED <<cfg, ctor, requests, requestsClosed, responsesClosed, workers,
                   closed, pSent, pRecv, closesPut, avars>>

\* join, closed: w.join() of the worker of the current iteration
JoinWait ==
    /\ jn.pc = "wait"
    /\ workers[jn.idx].pc \in {"exited", "terminated"}
    /\ LET r == JoinReturn([jn EXCEPT !.pc = "recv"], jn.final_responses) IN
         /\ jn' = r.jn
         /\ responsesClosed' = r.responsesClosed
         /\ ret' = r.ret
    /\ UNCHANGED <<cfg, ctor, requests, responses, requestsClosed, workers, closed,
                   erred, pSent, pRecv, errLog, closesPut, avars>>

\* --------------------------------------------------------------- AsyncPool
\* The AsyncPool is sequential: each method is a function of the object.

\* __init__: self.context_after_pre = pre_fn(self.host, 1, self.context)
AsyncInit(c) ==
    [NoAsyncPool EXCEPT !.built = c.pre /= "raise",
                        !.context_after_pre =
                            IF c.pre = "raise" THEN NoneVal ELSE PreFn(c.pre, 1, c.context)]

\* send: self.msgs.append(msg)
AsyncSend(a, msg) == [a EXCEPT !.msgs = Append(a.msgs, msg)]


\* get popping the newest message: self.msgs.pop()
AsyncGetLast(a) ==
    IF a.msgs = <<>>
    THEN [pool |-> a, ret |-> Raised("get", Exc("IndexError"))]
    ELSE [pool |-> [a EXCEPT !.msgs = SubSeq(a.msgs, 1, Len(a.msgs) - 1)],
          ret |-> IF cfg.cb = "raise"
                  THEN Raised("get", Exc(CallbackExc))
                  ELSE Returned("get", Callback(a.context_after_pre,
                                                a.msgs[Len(a.msgs)]))]

\* get: return self.callback(self.context_after_pre, self.msgs.pop(0))
AsyncGet(a) ==
    IF a.msgs = <<>>
    THEN [pool |-> a, ret |-> Raised("get", Exc("IndexError"))]
    ELSE [pool |-> [a EXCEPT !.msgs = Tail(a.msgs)],
          ret |-> IF cfg.cb = "raise"
                  THEN Raised("get", Exc(CallbackExc))
                  ELSE Returned("get", Callback(a.context_after_pre, Head(a.msgs)))]

\* close: self.closed = True; self.final_context = self.post_fn(...)
AsyncClose(a) ==
    IF cfg.post = "raise"
    THEN [pool |-> [a EXCEPT !.closed = TRUE, !.posts = a.posts + 1],
          ret |-> Raised("close", Exc(PostExc))]
    ELSE [pool |-> [a EXCEPT !.closed = TRUE, !.posts = a.posts + 1,
                             !.final_context = PostFn(a.context_after_pre)],
          ret |-> Returned("close", NoneVal)]

\* join: if not self.closed: self.close(); return [self.final_context]
AsyncJoin(a) ==
    LET c == IF ~a.closed THEN AsyncClose(a) ELSE [pool |-> a, ret |-> NoRet] IN
    [pool |-> c.pool,
     ret |-> IF c.ret.kind = "raise"
             THEN Raised("join", c.ret.exc)
             ELSE Returned("join", <<c.pool.final_context>>)]

AsyncPoolInit ==
    /\ ctor = "checked"
    /\ PoolClass(cfg.jobs) = "AsyncPool"
    /\ ctor' = "built"
    /\ apool' = AsyncInit(cfg)
    /\ aRet' = IF apool'.built THEN Returned("init", NoneVal) ELSE Raised("init", Exc(PreExc))
    /\ UNCHANGED <<cfg, requests, responses, requestsClosed, responsesClosed,
                   workers, closed, erred, jn, pSent, pRecv, ret, errLog,
                   closesPut, aSent, aRecv>>

ASend ==
    /\ apool.built
    /\ aSent < Len(cfg.todo)
    /\ apool' = AsyncSend(apool, cfg.todo[aSent + 1])
    /\ aSent' = aSent + 1
    /\ aRet' = Returned("send", NoneVal)
    /\ UNCHANGED <<cfg, pvars, aRecv>>

AGet ==
    /\ apool.built
    /\ apool' = AsyncGet(apool).pool
    /\ aRet' = AsyncGet(apool).ret
    /\ aRecv' = IF aRet'.kind = "return" THEN Append(aRecv, aRet'.val) ELSE aRecv
    /\ UNCHANGED <<cfg, pvars, aSent>>

AClose ==
    /\ apool.built
    /\ apool.posts < MaxPosts
    /\ apool' = AsyncClose(apool).pool
    /\ aRet' = AsyncClose(apool).ret
    /\ UNCHANGED <<cfg, pvars, aSent, aRecv>>

AJoin ==
    /\ apool.built
    /\ apool.closed \/ apool.posts < MaxPosts
    /\ apool' = AsyncJoin(apool).pool
    /\ aRet' = AsyncJoin(apool).ret
    /\ UNCHANGED <<cfg, pvars, aSent, aRecv>>

\* --------------------------------------------------------- specification
Next ==
    \/ MakePoolCheck
    \/ ProcessPoolInit
    \/ \E w \in WorkerNums : WorkerPre(w)
    \/ \E w \in WorkerNums : WorkerGet(w)
    \/ \E w \in WorkerNums : WorkerCall(w)
    \/ \E w \in WorkerNums : WorkerPost(w)
    \/ PSend
    \/ PGet
    \/ PClose
    \/ PJoin
    \/ JoinTerminate
    \/ JoinRecv
    \/ JoinWait
    \/ AsyncPoolInit
    \/ ASend
    \/ AGet
    \/ AClose
    \/ AJoin

Spec == Init /\ [][Next]_vars

\* one step of the process of worker w
WorkerStep(w) ==
    /\ w \in WorkerNums
    /\ \/ WorkerPre(w)
       \/ WorkerGet(w)
       \/ WorkerCall(w)
       \/ WorkerPost(w)

\* a step of a join() that is running
JoinStep == JoinTerminate \/ JoinRecv \/ JoinWait

\* Every started worker is a process of its own that the operating system
\* keeps running, and a join() that can go on does go on; the caller is
\* free to make or not make any further call.
FairSpec ==
    /\ Init /\ [][Next]_vars
    /\ \A w \in 0..(MaxWorkers - 1) : WF_vars(WorkerStep(w))
    /\ WF_vars(JoinStep)

\* ================================================================ properties
\* number of occurrences of v in the sequence s
Count(s, v) == Cardinality({i \in 1..Len(s) : s[i] = v})

\* s and t hold the same values with the same multiplicities
SameMultiset(s, t) ==
    /\ Len(s) = Len(t)
    /\ \A i \in 1..Len(s) : Count(s, s[i]) = Count(t, s[i])

\* the documented scenario: parallelism 2, initial context 0, setup(ctx) =
\* ctx + 1, callback(ctx, job) = ctx + job, teardown(ctx) = ctx
Scenario ==
    /\ cfg.jobs = 2 /\ cfg.context = 0 /\ cfg.pre = "inc" /\ cfg.cb = "add"
    /\ cfg.post = "id"

\* jobs 1, 2, 3, 4 were submitted and four responses received
ScenarioDrained ==
    /\ Scenario
    /\ cfg.todo = <<1, 2, 3, 4>> /\ pSent = 4 /\ Len(pRecv) = 4

\* join returned its list on the graceful path (closed is set by close only,
\* and close is impossible after an abnormal join)
GracefulJoinReturned == ret.op = "join" /\ ret.kind = "return" /\ closed

\* C1 as stated: in the scenario, after jobs 1, 2, 3, 4 were submitted and four
\* responses received, the multiset of the results is {2, 3, 3, 4}.
C1_Original == ScenarioDrained => SameMultiset(pRecv, <<2, 3, 3, 4>>)

\* C1 amended: in the scenario, after jobs 1, 2, 3, 4 were submitted and four
\* responses received, the multiset of the results is {2, 3, 4, 5} (each job
\* plus the derived context 1), under every interleaving of the two workers.
C1_ScenarioResults == ScenarioDrained => SameMultiset(pRecv, <<2, 3, 4, 5>>)

\* the four results were received, and not in submission order
C1_Witness == ScenarioDrained /\ pRecv /= <<2, 3, 4, 5>>

\* C2: when join returns on the graceful path its list has exactly N final
\* contexts, each from the Done of a different worker; in the scenario the
\* list is [1, 1].
C2_JoinReturnsOnePerWorker ==
    GracefulJoinReturned =>
        /\ Len(ret.val) = cfg.jobs
        /\ Len(ret.from) = cfg.jobs
        /\ {ret.from[i] : i \in 1..Len(ret.from)} = WorkerNums
        /\ Scenario => ret.val = <<1, 1>>

\* join returned [1, 1] in the scenario
C2_Witness == GracefulJoinReturned /\ Scenario /\ ret.val = <<1, 1>>

\* C3 as stated: on the graceful path the i-th element of the list join
\* returns is the final context that the teardown of worker i produced.
C3_Original ==
    GracefulJoinReturned =>
        \A w \in WorkerNums :
            /\ w + 1 <= Len(ret.val)
            /\ ret.val[w + 1] = PostFn(workers[w].context_after_pre)

\* the AsyncPool after the first n jobs of the work list were sent to a
RECURSIVE AsyncSent(_, _)
AsyncSent(a, n) ==
    IF n = 0 THEN a ELSE AsyncSend(AsyncSent(a, n - 1), cfg.todo[n])

\* the results that k calls of get return on the AsyncPool a
RECURSIVE AsyncReceives(_, _)
AsyncReceives(a, k) ==
    IF k = 0 THEN <<>>
    ELSE LET g == AsyncGet(a) IN
         (IF g.ret.kind = "return" THEN <<g.ret.val>> ELSE <<>>)
             \o AsyncReceives(g.pool, k - 1)

\* C4 as stated: a ProcessPool of one worker returns from get the same
\* sequence of results as the AsyncPool made with the same arguments and sent
\* the same jobs, whatever setup does with the worker index.
C4_Original ==
    (cfg.direct /\ cfg.jobs = 1) =>
        pRecv = AsyncReceives(AsyncSent(AsyncInit(cfg), pSent), Len(pRecv))

\* C5: in both variants, when send(j) is called while no job is outstanding
\* and the next call is a get that returns, it returns
\* callback(derived_context, j), derived_context being what setup returned for
\* the worker that ran the job (the AsyncPool's single worker is numbered 1).
C5_Step ==
    /\ (ret.op = "send" /\ Len(pRecv) + 1 = pSent /\ pRecv' /= pRecv) =>
          /\ ret' = Returned("get",
                 Callback(PreFn(cfg.pre, Head(responses).from, cfg.context),
                          cfg.todo[pSent]))
          /\ pRecv' = Append(pRecv, ret'.val)
    /\ (aRet.op = "send" /\ Len(aRecv) + 1 = aSent /\ aRecv' /= aRecv) =>
          /\ aRet' = Returned("get",
                 Callback(PreFn(cfg.pre, 1, cfg.context), cfg.todo[aSent]))
          /\ aRecv' = Append(aRecv, aRet'.val)

C5_Passthrough == [][C5_Step]_vars

\* the second of two workers ran the only outstanding job and get returned
\* its result
C5_Witness ==
    /\ cfg.jobs = 2 /\ cfg.pre = "idx" /\ pSent >= 1 /\ Len(pRecv) = pSent
    /\ ret = Returned("get", 1 + cfg.todo[pSent])

\* join returned on the path taken when the pool was not closed
AbnormalJoinReturned == ret.op = "join" /\ ret.kind = "return" /\ ~closed

\* C6: join on a pool that was never closed returns the empty list and leaves
\* no worker running, whatever is still queued or being processed; nothing is
\* collected and the response queue is closed with its content.
C6_AbnormalJoin ==
    AbnormalJoinReturned =>
        /\ ret.val = <<>>
        /\ \A w \in WorkerNums : workers[w].pc \in {"terminated", "exited"}
        /\ responsesClosed

\* join returned while a request was queued and a result waited to be received
C6_Witness ==
    /\ AbnormalJoinReturned
    /\ requests /= <<>> /\ responses /= <<>> /\ pSent > Len(pRecv)

\* C7: when pre_fn or post_fn cannot be pickled, make_pool raises ValueError
\* and no worker process is ever started (nor an AsyncPool made).
C7_FailFast ==
    (~cfg.prePicklable \/ ~cfg.postPicklable) =>
        /\ ctor \in {"new", "ValueError"}
        /\ ctor = "ValueError" => ret = Raised("make_pool", Exc("ValueError"))
        /\ \A w \in WorkerNums : workers[w].pc = "unborn"
        /\ ~apool.built

\* make_pool failed on a post_fn that cannot be pickled
C7_Witness ==
    /\ cfg.prePicklable /\ ~cfg.postPicklable /\ cfg.jobs = 2
    /\ ctor = "ValueError"

\* number of messages of type t in the queue q
CountType(q, t) == Cardinality({i \in 1..Len(q) : q[i].type = t})

\* C8 as stated: with a callback that always raises (and a setup that does
\* not), the dispatcher never observes more than one Error.
C8_Original ==
    (cfg.cb = "raise" /\ cfg.pre /= "raise") => Len(errLog) <= 1

\* a worker that has put its Error has put exactly one, is out of its loop,
\* and the dispatcher has dequeued at most one Error of it; a callback that
\* always raises yields no Response at all
C8_Inv ==
    /\ \A w \in WorkerNums :
          /\ workers[w].errors <= 1
          /\ workers[w].erred <=> workers[w].errors = 1
          /\ workers[w].erred => workers[w].pc \in {"post", "exited", "terminated"}
          /\ Count(errLog, w) <= workers[w].errors
    /\ cfg.cb = "raise" => (pRecv = <<>> /\ CountType(responses, "Response") = 0)

\* a worker that has put its Error takes no Request and puts nothing more; a
\* callback that raises makes the worker that ran it put its one Error
C8_Step ==
    \A w \in WorkerNums :
        /\ workers[w].erred =>
              /\ workers'[w].erred
              /\ workers'[w].pc \notin {"get", "call"}
              /\ Len(responses') > Len(responses) =>
                     responses'[Len(responses')].from /= w
        /\ (cfg.cb = "raise" /\ workers[w].pc = "call" /\ workers'[w].pc /= "call"
              /\ workers'[w].pc /= "terminated") =>
              /\ workers'[w].errors = 1
              /\ responses' = Append(responses, Error(w, CallbackExc))

\* C8 amended: with a callback that always raises, each worker that runs the
\* callback puts exactly one Error, so the dispatcher observes at most one
\* Error per worker (up to N in all, not one); a worker that has put an Error
\* puts no Response and takes no Request afterwards.
C8_WorkerFatal == [](C8_Inv) /\ [][C8_Step]_vars

\* the dispatcher has observed the Errors of two workers
C8_Witness ==
    /\ cfg.cb = "raise" /\ cfg.pre /= "raise"
    /\ Len(errLog) = 2 /\ errLog[1] /= errLog[2]

\* C9: a get whose next message is Error(worker_num, ex_str) returns nothing: it
\* raises the pool's exception with that worker number and text and sets
\* erred; erred is never cleared.
C9_Step ==
    /\ (/\ jn.pc = "idle" /\ responses /= <<>> /\ Head(responses).type = "Error"
        /\ responses' = Tail(responses)) =>
          /\ ret' = Raised("get", [name |-> "Exception",
                                   worker_num |-> Head(responses).resp[1],
                                   ex_str |-> Head(responses).resp[2]])
          /\ pRecv' = pRecv
          /\ erred'
    /\ erred => erred'

C9_GetRaisesOnError == [][C9_Step]_vars

\* get raised for the Error that the callback caused on worker 1
C9_Witness ==
    /\ ret.op = "get" /\ ret.kind = "raise"
    /\ ret.exc = [name |-> "Exception", worker_num |-> 1, ex_str |-> CallbackExc]
    /\ erred

\* number of Close messages taken by the workers 0..n-1
RECURSIVE ClosesTaken(_)
ClosesTaken(n) == IF n = 0 THEN 0 ELSE workers[n - 1].closes + ClosesTaken(n - 1)

\* C10: close puts exactly N Close messages and sets closed; no more than N
\* are ever put, whatever the sequence of operations, and each worker takes at
\* most one.
C10_OneClosePerWorker ==
    /\ closesPut = (IF closed THEN cfg.jobs ELSE 0)
    /\ closed => requestsClosed
    /\ CountType(requests, "Close") + ClosesTaken(cfg.jobs) = closesPut
    /\ \A w \in WorkerNums : workers[w].closes <= 1

\* close was called and each of two workers has taken its Close
C10_Witness ==
    /\ cfg.jobs = 2 /\ closed
    /\ \A w \in WorkerNums : workers[w].closes = 1

\* the terminal messages (Done or Error) of worker w that are in queue q
TerminalFrom(q, w) ==
    {i \in 1..Len(q) : q[i].from = w /\ q[i].type \in {"Done", "Error"}}

\* C11: in every reachable state each worker has emitted at most one
\* terminal message in total: never two Done, never two Error, never a Done
\* and an Error, whichever of pre_fn, callback or post_fn failed; the
\* response channel never holds more terminal messages of a worker than
\* that worker has put.
C11_OneTerminalMessage ==
    \A w \in DOMAIN workers :
        /\ workers[w].errors + workers[w].dones <= 1
        /\ Cardinality(TerminalFrom(responses, w))
              <= workers[w].errors + workers[w].dones

\* two workers have exited, one after an Error and one after a Done
C11_Witness ==
    /\ cfg.jobs = 2
    /\ \A w \in DOMAIN workers : workers[w].pc = "exited"
    /\ \E v, w \in DOMAIN workers :
          /\ workers[v].errors = 1 /\ workers[v].dones = 0
          /\ workers[w].dones = 1 /\ workers[w].errors = 0

\* the workers whose process is running
LiveWorkers ==
    {w \in DOMAIN workers : workers[w].pc \in {"pre", "get", "call", "post"}}

C12_Inv ==
    /\ Cardinality(LiveWorkers) <= cfg.jobs
    /\ ctor /= "built" => LiveWorkers = {}
    /\ ctor = "built" => Cardinality(DOMAIN workers) = cfg.jobs

C12_Step ==
    /\ \A w \in DOMAIN workers :
          /\ workers[w].pc \in {"exited", "terminated"}
                => w \in DOMAIN workers' /\ workers'[w].pc = workers[w].pc
          /\ (workers[w].pc = "unborn" /\ w \in DOMAIN workers'
                 /\ workers'[w].pc /= "unborn")
                => ctor /= "built" /\ ctor' = "built"
    /\ ctor = "built" => DOMAIN workers' = DOMAIN workers
    /\ (ctor /= "built" /\ ctor' = "built" /\ IsProcessPool)
          => Cardinality({w \in DOMAIN workers' : workers'[w].pc = "pre"}) = cfg.jobs

\* C12: in every reachable state at most N = jobs workers are live; the
\* workers are started only by the constructor, exactly N of them, and a
\* worker that has exited (normally or after an error) or was terminated
\* is never started again.
C12_WorkerCount == [](C12_Inv) /\ [][C12_Step]_vars

\* both workers of a two-worker pool are running a callback
C12_Witness ==
    /\ cfg.jobs = 2
    /\ \A w \in DOMAIN workers : workers[w].pc = "call"

\* one worker has exited and the other is still live
C12_WitnessExited ==
    /\ cfg.jobs = 2
    /\ \E v, w \in DOMAIN workers :
          workers[v].pc = "exited" /\ workers[w].pc = "get"

\* the number of Errors put by workers 0 .. n-1
RECURSIVE ErrorsPut(_)
ErrorsPut(n) == IF n = 0 THEN 0 ELSE workers[n - 1].errors + ErrorsPut(n - 1)

\* the Errors that answer a Request: pre_fn either fails on every worker,
\* and then no Request is ever processed, or on none
CallbackErrors == IF cfg.pre = "raise" THEN 0 ELSE ErrorsPut(NumWorkers)

\* the workers that hold a dequeued Request
InCall == {w \in DOMAIN workers : workers[w].pc = "call"}

\* a worker that took a Request took the head of the queue, alone
C13_Dequeue ==
    \A w \in DOMAIN workers :
        (workers[w].pc = "get" /\ workers'[w].pc = "call")
           => /\ Head(requests).type = "Request"
              /\ requests' = Tail(requests)
              /\ workers'[w].args = Head(requests).args
              /\ \A v \in DOMAIN workers \ {w} : workers'[v] = workers[v]

\* the one message a worker puts for the Request it holds
C13_Answer(w) ==
    \/ responses' = Append(responses,
          Response(w, Callback(PreFn(cfg.pre, w, cfg.context), workers[w].args)))
    \/ responses' = Append(responses, Error(w, CallbackExc))

\* C13 as stated: every Request dequeued by a worker yields exactly one
\* message on the response channel, a Response carrying
\* callback(derived context, job) or an Error, never both and never neither,
\* and a Request is dequeued by at most one worker.
C13_Original ==
    [][ /\ C13_Dequeue
        /\ \A w \in DOMAIN workers :
              (workers[w].pc = "call" /\ workers'[w].pc /= "call")
                 => C13_Answer(w) ]_vars

\* no Request is answered twice or taken twice: the Requests still queued,
\* held by a worker, or answered never outnumber the Requests sent
C13_Inv ==
    CountType(requests, "Request") + Cardinality(InCall)
       + CountType(responses, "Response") + Len(pRecv) + CallbackErrors
    <= pSent

C13_Step ==
    /\ C13_Dequeue
    /\ \A w \in DOMAIN workers :
          (workers[w].pc = "call" /\ workers'[w].pc /= "call")
             => \/ C13_Answer(w)
                \/ workers'[w].pc = "terminated" /\ responses' = responses

\* C13 (amended): every Request dequeued by a worker that is not terminated
\* while it runs the callback yields exactly one message on the response
\* channel, a Response carrying callback(derived context, job) or an Error;
\* a worker terminated by an abnormal join while it holds a Request puts
\* nothing for it; a Request is dequeued by at most one worker.
C13_OneAnswerPerRequest == [](C13_Inv) /\ [][C13_Step]_vars

\* one worker has answered a Request and the other holds one
C13_Witness ==
    /\ cfg.jobs = 2
    /\ \E v, w \in DOMAIN workers :
          /\ v /= w
          /\ workers[v].pc = "call"
          /\ \E i \in 1..Len(responses) :
                responses[i].type = "Response" /\ responses[i].from = w

\* the one Request sent was dequeued and nothing answers it
C13_WitnessTerminated ==
    /\ pSent = 1
    /\ CountType(requests, "Request") = 0
    /\ responses = <<>> /\ pRecv = <<>> /\ errLog = <<>>
    /\ \E w \in DOMAIN workers : workers[w].pc = "terminated"
    /\ \A w \in DOMAIN workers :
          workers[w].pc \in {"terminated", "exited"} /\ workers[w].errors = 0

\* C14 as stated: on the AsyncPool, after any sequence of close() and join()
\* calls post_fn has been invoked exactly once, and a join() that returns
\* gives the one-element list holding the final context that invocation
\* produced.
C14_Original ==
    /\ apool.closed => apool.posts = 1
    /\ (aRet.op = "join" /\ aRet.kind = "return" /\ cfg.post /= "raise")
          => aRet.val = <<PostFn(PreFn(cfg.pre, 1, cfg.context))>>

\* C15: on the AsyncPool the k-th get() that returns gives
\* callback(derived context, j_k) for the k-th job sent: jobs are processed
\* in strict FIFO order, each exactly once (the jobs still queued are the
\* ones sent and not yet received, in order), and the derived context is
\* the value pre_fn returned in the constructor.
C15_AsyncFifo ==
    (apool.built /\ cfg.cb = "add") =>
        /\ apool.context_after_pre = PreFn(cfg.pre, 1, cfg.context)
        /\ Len(aRecv) <= aSent
        /\ \A k \in 1..Len(aRecv) :
              aRecv[k] = Callback(PreFn(cfg.pre, 1, cfg.context), cfg.todo[k])
        /\ apool.msgs = SubSeq(cfg.todo, Len(aRecv) + 1, aSent)

\* the three jobs 3, 1, 2 were sent and all three results received
C15_Witness ==
    /\ apool.built /\ cfg.cb = "add"
    /\ cfg.todo = <<3, 1, 2>>
    /\ aSent = 3
    /\ aRecv = <<4, 2, 3>>
    /\ apool.msgs = <<>>

\* worker w left its loop on a Close, without error
ExitedOnClose(w) ==
    workers[w].pc = "exited" /\ workers[w].closes = 1 /\ ~workers[w].erred

C16_Inv ==
    cfg.post = "raise" =>
        \A w \in DOMAIN workers :
            ExitedOnClose(w) =>
                /\ workers[w].teardowns = 1
                /\ workers[w].dones = 0 /\ workers[w].errors = 0
                /\ TerminalFrom(responses, w) = {}

C16_Step ==
    \A w \in DOMAIN workers :
        (cfg.post = "raise" /\ workers[w].pc = "post" /\ ~workers[w].erred
            /\ workers'[w].pc = "exited")
           => responses' = responses

\* C16: a worker whose loop ended on Close without error and whose post_fn
\* then fails emits neither Done nor Error: the step that runs the failing
\* post_fn puts nothing on the response channel, and the exited worker has
\* no terminal message.
C16_TeardownFailureSilent == [](C16_Inv) /\ [][C16_Step]_vars

\* a worker answered a job, took its Close, and exited from a failing post_fn
C16_Witness ==
    /\ cfg.post = "raise" /\ closed
    /\ pRecv /= <<>>
    /\ \A w \in DOMAIN workers : ExitedOnClose(w)

C17_Inv ==
    \A w \in DOMAIN workers :
        /\ workers[w].setups <= 1 /\ workers[w].teardowns <= 1
        /\ workers[w].pc \in {"unborn", "pre"} => workers[w].setups = 0
        /\ workers[w].pc \in {"get", "call", "post", "exited"}
              => workers[w].setups = 1
        /\ workers[w].pc = "exited"
              => (workers[w].teardowns = 1
                    <=> (workers[w].closes = 1 /\ ~workers[w].erred))
        /\ workers[w].pc /= "exited" => workers[w].teardowns = 0
        /\ workers[w].errors > 0 => workers[w].teardowns = 0
        /\ workers[w].pc = "terminated" => workers[w].closes = 0

C17_Step ==
    \A w \in DOMAIN workers :
        \* a callback runs after the one setup and before any teardown
        /\ (workers[w].pc = "call" /\ workers'[w].pc \in {"get", "post"})
              => workers[w].setups = 1 /\ workers[w].teardowns = 0
        \* setup and teardown are not repeated, and after its teardown the
        \* worker does nothing more
        /\ workers[w].setups = 1 => workers'[w].setups = 1
        /\ workers[w].teardowns = 1 => workers'[w] = workers[w]

\* C17: in each ProcessPool worker pre_fn runs exactly once and before any
\* callback; post_fn runs exactly once if the loop ended on Close without
\* error and not at all otherwise, in particular never on a worker that
\* emitted an Error; it runs after the worker's last callback, and no
\* callback runs on the worker after it.
C17_Lifecycle == [](C17_Inv) /\ [][C17_Step]_vars

\* at least two jobs were sent and all results received, and both workers
\* have run their teardown and exited
C17_Witness ==
    /\ cfg.jobs = 2 /\ cfg.cb = "add"
    /\ Len(pRecv) = pSent /\ pSent >= 2
    /\ \A w \in DOMAIN workers :
          workers[w].pc = "exited" /\ workers[w].teardowns = 1

\* a worker that emitted an Error has exited without teardown
C17_WitnessErred ==
    \E w \in DOMAIN workers :
        /\ workers[w].pc = "exited" /\ workers[w].errors = 1
        /\ workers[w].setups = 1 /\ workers[w].teardowns = 0

\* the value pre_fn returns on worker w
DerivedContext(w) == PreFn(cfg.pre, w, cfg.context)

C18_Inv ==
    \A w \in DOMAIN workers :
        /\ workers[w].context_after_pre \in {NoneVal, DerivedContext(w)}
        /\ workers[w].pc \in {"get", "call"}
              => workers[w].context_after_pre = DerivedContext(w)
        /\ (workers[w].pc = "post" /\ ~workers[w].erred)
              => workers[w].context_after_pre = DerivedContext(w)

C18_Step ==
    \A w \in DOMAIN workers :
        \* the context of w is assigned by the setup of w and by nothing else
        /\ workers'[w].context_after_pre /= workers[w].context_after_pre
              => /\ workers[w].pc = "pre" /\ workers[w].setups = 0
                 /\ workers'[w].context_after_pre = DerivedContext(w)
        \* the callback and the teardown of w are given that value
        /\ (workers[w].pc = "call" /\ workers'[w].pc = "get")
              => responses' = Append(responses,
                     Response(w, Callback(DerivedContext(w), workers[w].args)))
        /\ workers'[w].dones > workers[w].dones
              => responses' = Append(responses,
                     Done(w, PostFn(DerivedContext(w))))

\* C18: on each worker every callback and the teardown are passed the one
\* value that worker's pre_fn returned; the derived context of a worker is
\* assigned only by its own setup, so a job processed on one worker never
\* changes the derived context that another worker holds.
C18_ContextIsolation == [](C18_Inv) /\ [][C18_Step]_vars

\* two workers with different derived contexts have each answered a job,
\* and one of them holds a further job
C18_Witness ==
    /\ cfg.jobs = 2 /\ cfg.pre = "idx"
    /\ workers[0].context_after_pre = 0 /\ workers[1].context_after_pre = 1
    /\ \E i, j \in 1..Len(responses) :
          /\ responses[i].type = "Response" /\ responses[i].from = 0
          /\ responses[j].type = "Response" /\ responses[j].from = 1
    /\ \E w \in DOMAIN workers : workers[w].pc = "call"

IsRequest(m) == m.type = "Request"

\* the Requests waiting in the requests queue, oldest first
QueuedRequests == SelectSeq(requests, IsRequest)

\* the position in the work list of job args; the jobs of a work list are
\* pairwise different
JobIndex(args) == CHOOSE k \in 1..Len(cfg.todo) : cfg.todo[k] = args

\* the position in the work list of the job that the Response m answers
AnsweredIndex(m) ==
    CHOOSE k \in 1..Len(cfg.todo) :
        Callback(DerivedContext(m.from), cfg.todo[k]) = m.resp

C19_Inv ==
    \* the queue holds the Requests sent last, in the order of sending: the
    \* ones dequeued so far are the ones sent first
    /\ \A i \in 1..Len(QueuedRequests) :
          QueuedRequests[i].args = cfg.todo[pSent - Len(QueuedRequests) + i]
    \* the Responses of one worker are queued in the order of its Requests
    /\ \A i, j \in 1..Len(responses) :
          (i < j /\ responses[i].type = "Response" /\ responses[j].type = "Response"
             /\ responses[i].from = responses[j].from)
            => AnsweredIndex(responses[i]) < AnsweredIndex(responses[j])
    \* and all answer Requests dequeued before the one the worker holds
    /\ \A w \in DOMAIN workers : \A i \in 1..Len(responses) :
          (workers[w].pc = "call" /\ responses[i].type = "Response"
             /\ responses[i].from = w)
            => AnsweredIndex(responses[i]) < JobIndex(workers[w].args)

C19_Step ==
    \A w \in DOMAIN workers :
        (workers[w].pc = "get" /\ workers'[w].pc = "call")
           => /\ workers'[w].args = cfg.todo[pSent - Len(QueuedRequests) + 1]
              /\ \A v \in DOMAIN workers :
                    workers[v].pc = "call"
                       => JobIndex(workers[v].args) < JobIndex(workers'[w].args)

\* C19: Requests are dequeued from the request channel in the order they
\* were sent, and the Responses of any single worker appear on the response
\* channel in the order in which that worker dequeued its Requests
\* (per-worker FIFO).  Responses of different workers can be out of
\* submission order: C19_Witness.
C19_Ordering == [](C19_Inv) /\ [][C19_Step]_vars

\* the response channel holds the answer to a later job of one worker in
\* front of the answer to an earlier job of another worker
C19_Witness ==
    /\ cfg.jobs = 2
    /\ \E i, j \in 1..Len(responses) :
          /\ i < j
          /\ responses[i].type = "Response" /\ responses[j].type = "Response"
          /\ responses[i].from /= responses[j].from
          /\ AnsweredIndex(responses[i]) > AnsweredIndex(responses[j])

\* join, waiting for a Done, takes the head of the response channel
JoinDequeues ==
    jn.pc = "recv" /\ responses /= <<>> /\ responses' = Tail(responses)

C20_Step ==
    /\ (JoinDequeues /\ Head(responses).type = "Error")
          => /\ jn.idx < cfg.jobs
             /\ ret' = Raised("join", PoolError(Head(responses).resp))
             /\ ret'.exc.worker_num = Head(responses).from
             /\ erred'
             /\ jn' = IdleJoin
             /\ ~responsesClosed'
    /\ (JoinDequeues /\ Head(responses).type = "Response")
          => /\ jn' = jn
             /\ pRecv' = pRecv
             /\ ret' = ret

C20_Inv ==
    \* a join that raised holds no list of contexts
    /\ (ret.op = "join" /\ ret.kind = "raise" /\ jn.pc = "idle")
          => erred /\ errLog /= <<>> /\ jn = IdleJoin
    \* the list of a join in progress, and of one that returned, holds
    \* results of post_fn only
    /\ Len(jn.final_responses) = Len(jn.finalFrom)
    /\ \A i \in 1..Len(jn.final_responses) :
          jn.final_responses[i] = PostFn(DerivedContext(jn.finalFrom[i]))
    /\ GracefulJoinReturned
          => \A i \in 1..Len(ret.val) :
                ret.val[i] = PostFn(DerivedContext(ret.from[i]))

\* C20: when join() on a closed pool dequeues an Error before it has
\* collected a Done for every worker, it raises the pool's exception for
\* that Error and returns no list of contexts; a Response that join()
\* dequeues while it waits for a Done is dropped: it is neither received
\* by the caller nor put in the returned list.
C20_GracefulJoinError == [](C20_Inv) /\ [][C20_Step]_vars

\* join collected the Done of one worker and then raised for the Error of
\* the other
C20_Witness ==
    /\ cfg.jobs = 2 /\ closed
    /\ ret.op = "join" /\ ret.kind = "raise"
    /\ CountType(responses, "Done") = 0
    /\ \E v, w \in DOMAIN workers :
          /\ workers[v].dones = 1
          /\ workers[w].errors = 1 /\ ret.exc.worker_num = w

\* join returned the contexts although no result was ever received: the
\* Responses to both jobs were dropped by join
C20_WitnessDiscarded ==
    /\ GracefulJoinReturned /\ cfg.cb = "add" /\ cfg.post = "id"
    /\ pSent = 2 /\ pRecv = <<>>
    /\ CountType(responses, "Response") = 0
    /\ Len(ret.val) = cfg.jobs

\* C21 as stated: after close() on a ProcessPool, a join() that was called
\* eventually completes, by returning a list or by raising, when the
\* workers are scheduled fairly, whatever callback and post_fn do.
C21_Original == (closed /\ jn.pc /= "idle") ~> (jn.pc = "idle")

\* some worker has dequeued a Close
CloseTaken == \E w \in DOMAIN workers : workers[w].closes > 0

C22_Inv ==
    \* in the request channel no Request is behind a Close
    /\ \A i, j \in 1..Len(requests) :
          (i < j /\ requests[i].type = "Close") => requests[j].type = "Close"
    \* once a Close was dequeued no Request is left to dequeue
    /\ CloseTaken => QueuedRequests = <<>>
    \* in the response channel no Response of a worker is behind its Done
    /\ \A i, j \in 1..Len(responses) :
          (i < j /\ responses[i].type = "Done"
             /\ responses[i].from = responses[j].from)
            => responses[j].type /= "Response"
    \* when no worker erred and every worker has emitted its Done, every
    \* Request sent was dequeued and none is still being processed
    /\ (\A w \in DOMAIN workers : workers[w].dones = 1)
          => QueuedRequests = <<>> /\ InCall = {}

C22_Step ==
    \A w \in DOMAIN workers :
        \* the step that dequeues a Close finds no Request queued
        /\ workers'[w].closes > workers[w].closes
              => closed /\ QueuedRequests = <<>>
        \* a worker that dequeued its Close takes nothing more
        /\ workers[w].closes > 0 => workers'[w].pc \notin {"get", "call"}

\* C22: in the ProcessPool every Request sent before close() is dequeued
\* by a worker before any worker dequeues a Close; so when no worker errs,
\* every job sent before close() has been answered before the last worker
\* emits its Done.
C22_RequestsBeforeClose == [](C22_Inv) /\ [][C22_Step]_vars

\* the pool was closed, both jobs sent were answered, and after that
\* both workers emitted their Done
C22_Witness ==
    /\ cfg.jobs = 2 /\ closed /\ pSent = 2
    /\ \A w \in DOMAIN workers : workers[w].dones = 1
    /\ Len(responses) = 4
    /\ responses[1].type = "Response" /\ responses[2].type = "Response"
    /\ responses[3].type = "Done" /\ responses[4].type = "Done"

\* C23 as stated: the assertion of ProcessPool.get never fails: a message
\* that get() dequeues and that is not an Error is a Response, never a
\* Done, for every order of send, get and close calls made before join.
C23_Original ==
    [][ (CallerReady /\ ~responsesClosed /\ responses /= <<>>
           /\ responses' = Tail(responses) /\ jn' = jn)
          => Head(responses).type \in {"Error", "Response"} ]_vars

====
